---- MODULE Spec2Model ----
(***************************************************************************)
(* A model of httop (src/src/main.rs): the log reader thread, the terminal *)
(* input thread and the main display loop of Httop::start, the shared      *)
(* Stats behind its Mutex, and the mpsc command channel.                   *)
(***************************************************************************)
EXTENDS Integers, Sequences, FiniteSets, TLC

VARIABLES
    stats,          \* the Stats inside Arc<Mutex<Stats>>
    mutex,          \* who holds the Mutex: "free", "reader" or "main"
    now,            \* start_time.elapsed(), in abstract time units
    ipc,            \* log reader thread: position
    linesRead,      \* log reader thread: items taken from handle.lines()
    request,        \* log reader thread: the parsed Request in hand
    cpc,            \* terminal input thread: position
    keysRead,       \* terminal input thread: read_line calls made
    chan,           \* the mpsc channel: commands sent and not yet received
    rpc,            \* main display loop: position
    running,        \* main display loop: the local `running`
    sort_by,        \* Httop.sort_by
    display_limit,  \* Httop.display_limit
    snap,           \* render_simple: the local clone `stats`
    screen,         \* what the last render_simple wrote after clearing the screen
    typed,          \* history: the non-empty lines read from the terminal
    sent,           \* history: the commands sent on the channel
    applied,        \* history: the commands received by the main loop
    recorded,       \* history: the calls of Stats::update that have returned
    logErr,         \* history: the log stream has yielded a read error
    lastLine        \* history: the last item the log stream yielded

vars == <<stats, mutex, now, ipc, linesRead, request, cpc, keysRead, chan,
          rpc, running, sort_by, display_limit, snap, screen, typed, sent,
          applied, recorded, logErr, lastLine>>

readerVars == <<ipc, linesRead, request>>
inputVars  == <<cpc, keysRead, typed, sent>>
viewVars   == <<sort_by, display_limit>>
histVars   == <<applied, recorded, logErr, lastLine>>

----------------------------------------------------------------------------
(* Bounds of the model and constants of the program *)

MaxLines == 2        \* Spec: items the log stream yields before it ends
MaxFill == 102       \* SpecFill: well-formed lines the log stream yields
MaxCmds == 2         \* Spec: read_line calls of the terminal input thread
MaxTerm == 3         \* SpecTerm: read_line calls of the terminal input thread
MaxKeys == 13        \* SpecKeys: read_line calls of the terminal input thread
MaxParse == 2        \* SpecParse: items the log stream yields before it ends
MaxRps == 3          \* SpecRps: well-formed lines the log stream yields
MaxTime == 4         \* SpecRps: time units that pass while no thread steps
MaxSort == 11        \* SpecSort: well-formed lines the log stream yields
MaxSortKeys == 1     \* SpecSort: read_line calls of the terminal input thread
MaxPaths == 6        \* SpecLimit: lines, each of a path of its own
MaxDown == 3         \* SpecLimit: read_line calls of the terminal input thread

MaxRecent == 100     \* recent_requests keeps the 100 most recent requests
LimitStep == 5       \* display_limit moves in steps of 5
LimitFloor == 5      \* display_limit is decreased only while above 5
DefaultLimit == 20   \* Httop::new
MaxU16 == 65535      \* status_code: u16
PanelSize == 5       \* the status panel shows the 5 most frequent codes

None == [none |-> TRUE]

----------------------------------------------------------------------------
(* HashMap<K, usize> as a function whose domain is the set of keys present *)

EmptyMap == [k \in {} |-> 0]

\* *map.entry(k).or_insert(0) += 1
Incr(m, k) ==
    IF k \in DOMAIN m THEN [m EXCEPT ![k] = @ + 1]
                      ELSE [j \in DOMAIN m \cup {k} |-> IF j = k THEN 1 ELSE m[j]]

RECURSIVE SumOver(_, _)
SumOver(m, keys) ==
    IF keys = {} THEN 0
    ELSE LET k == CHOOSE j \in keys : TRUE
         IN  m[k] + SumOver(m, keys \ {k})

\* sum(H.values())
SumValues(m) == SumOver(m, DOMAIN m)

----------------------------------------------------------------------------
(* Stats *)

StatsNew ==
    [ total_requests      |-> 0,
      requests_per_second |-> [num |-> 0, den |-> 1],
      bytes_sent          |-> 0,
      status_codes        |-> EmptyMap,
      paths               |-> EmptyMap,
      ips                 |-> EmptyMap,
      methods             |-> EmptyMap,
      recent_requests     |-> << >> ]

\* Stats::update, lines 73-74: the two counters
update_counters(s, r) ==
    [s EXCEPT !.total_requests = @ + 1,
              !.bytes_sent     = @ + r.bytes_sent]

\* (variant) the histograms without line 79
update_histograms_skip_methods(s, r) ==
    [s EXCEPT !.status_codes = Incr(@, r.status_code),
              !.paths        = Incr(@, r.path),
              !.ips          = Incr(@, r.ip)]

\* Stats::update, lines 76-79: the four histograms
update_histograms(s, r) ==
    [s EXCEPT !.status_codes = Incr(@, r.status_code),
              !.paths        = Incr(@, r.path),
              !.ips          = Incr(@, r.ip),
              !.methods      = Incr(@, r.method)]

\* Stats::update, line 82
update_push(s, r) ==
    [s EXCEPT !.recent_requests = Append(@, r)]

\* (variant) the oldest request removed on reaching the capacity
update_evict_at_capacity(s) ==
    IF Len(s.recent_requests) >= MaxRecent
    THEN [s EXCEPT !.recent_requests = Tail(@)]
    ELSE s

\* Stats::update, lines 83-85
update_evict(s) ==
    IF Len(s.recent_requests) > MaxRecent
    THEN [s EXCEPT !.recent_requests = Tail(@)]
    ELSE s

\* Stats::update as a whole
update(s, r) ==
    update_evict(update_push(update_histograms(update_counters(s, r), r), r))

\* (variant) the rate of the requests before this one
update_rps_before_count(s, elapsed) ==
    IF elapsed > 0
    THEN [s EXCEPT !.requests_per_second =
                      [num |-> s.total_requests - 1, den |-> elapsed]]
    ELSE s

\* lines 142-145: the cached requests-per-second, total / elapsed as a fraction
update_rps(s, elapsed) ==
    IF elapsed > 0
    THEN [s EXCEPT !.requests_per_second = [num |-> s.total_requests, den |-> elapsed]]
    ELSE s

----------------------------------------------------------------------------
(* Log lines and parse_log_line.  A line is held by the parts the regex    *)
(* looks at: whether the fixed pattern matches up to the closing quote of  *)
(* the user agent, what follows that quote, and the captured groups.       *)

\* what follows the closing quote of the user agent
Tails == {"end", "space", "space_time"}

\* ts_ok: the timestamp has the format of line 98.  bytes_fits: the digits of
\* the bytes field are a value of usize (a longer run of digits matches \d+
\* too, and `bytes` is then not looked at)
Line(ip, tsok, method, path, status, bytes, ua, tail) ==
    [ ip |-> ip, ts_ok |-> tsok, method |-> method, path |-> path,
      status |-> status, bytes |-> bytes, bytes_fits |-> TRUE, ua |-> ua,
      tail |-> tail, shape |-> "log" ]

\* the line with a bytes field too long for usize
Oversized(line) == [line EXCEPT !.bytes_fits = FALSE]

Garbage == [shape |-> "other"]

\* the regex of line 92 ends in `"([^"]*)" (?:(\d+\.\d+))?`: the space after
\* the user agent's closing quote is not optional
regex_matches(line) ==
    /\ line.shape = "log"
    /\ line.tail \in {"space", "space_time"}

\* (variant) a status beyond u16 is cut to the largest u16
parse_log_line_saturating(line) ==
    IF ~regex_matches(line) THEN None
    ELSE IF ~line.ts_ok THEN None
    ELSE IF ~line.bytes_fits THEN None
    ELSE [ ip            |-> line.ip,
           method        |-> line.method,
           path          |-> line.path,
           status_code   |-> IF line.status > MaxU16 THEN MaxU16 ELSE line.status,
           bytes_sent    |-> line.bytes,
           user_agent    |-> line.ua,
           response_time |-> IF line.tail = "space_time" THEN "given" ELSE "zero" ]

\* lines 89-114: None unless the regex matches (93), the timestamp parses
\* (96-99) and status and bytes parse as u16 and usize (109-110)
parse_log_line(line) ==
    IF ~regex_matches(line) THEN None
    ELSE IF ~line.ts_ok THEN None
    ELSE IF line.status > MaxU16 THEN None
    ELSE IF ~line.bytes_fits THEN None
    ELSE [ ip            |-> line.ip,
           method        |-> line.method,
           path          |-> line.path,
           status_code   |-> line.status,
           bytes_sent    |-> line.bytes,
           user_agent    |-> line.ua,
           response_time |-> IF line.tail = "space_time" THEN "given" ELSE "zero" ]

\* Spec: the lines the log stream may yield
LogLines ==
    { Line("10.0.0.1", TRUE, "GET", "/a", 200, 10, "ua1", "space_time"),
      Line("10.0.0.2", TRUE, "POST", "/b", 404, 20, "ua2", "space"),
      Garbage }

\* SpecParse: a line with a response time, and the lines that differ from it
\* in one part: no response time, a trailing space only, a timestamp of
\* another format, the largest status, a status beyond u16, a bytes field
\* beyond usize, and a line of another shape
ParseLines ==
    { Line("10.0.0.1", TRUE, "GET", "/a", 200, 10, "ua1", "space_time"),
      Line("10.0.0.1", TRUE, "GET", "/a", 200, 10, "ua1", "end"),
      Line("10.0.0.1", TRUE, "GET", "/a", 200, 10, "ua1", "space"),
      Line("10.0.0.1", FALSE, "GET", "/a", 200, 10, "ua1", "space_time"),
      Line("10.0.0.1", TRUE, "GET", "/a", MaxU16, 10, "ua1", "space_time"),
      Line("10.0.0.1", TRUE, "GET", "/a", MaxU16 + 1, 10, "ua1", "space_time"),
      Oversized(Line("10.0.0.1", TRUE, "GET", "/a", 200, 10, "ua1", "space_time")),
      Garbage }

\* SpecRps: three requests of /x answered 200, 200, 404
RpsLine(n) ==
    Line("10.0.0.1", TRUE, "GET", "/x", IF n <= 2 THEN 200 ELSE 404, 10, "ua1",
         "space_time")

\* SpecSort: texts as bytes: the paths /a, /b and /c, each with the address,
\* status and user agent of its requests
SortPath(p) ==
    CASE p = "a" -> [path |-> <<47, 97>>, ip |-> <<49>>, status |-> 404,
                     ua |-> <<120>>]
      [] p = "b" -> [path |-> <<47, 98>>, ip |-> <<49>>, status |-> 200,
                     ua |-> <<120, 49>>]
      [] p = "c" -> [path |-> <<47, 99>>, ip |-> <<48>>, status |-> 404,
                     ua |-> <<120>>]

\* SpecSort: the n-th line of the log stream: /a, /b, /c, then four more
\* requests of /a and four more of /c
SortLine(n) ==
    LET r == SortPath(IF n = 2 THEN "b"
                      ELSE IF n = 1 \/ (n >= 4 /\ n <= 7) THEN "a" ELSE "c")
    IN  Line(r.ip, TRUE, "GET", r.path, r.status, 10, r.ua, "space_time")

\* SpecLimit: the n-th line of the log stream, each line of another path
PathLine(n) ==
    Line("10.0.0.1", TRUE, "GET", <<"/p", n>>, 200 + (n % 2), 10, "ua1",
         "space_time")

\* SpecFill: the n-th line of the log stream, all well-formed and distinct;
\* the path of the first line is not requested again
FillLine(n) ==
    Line(<<"ip", n % 4>>, TRUE, <<"m", n % 2>>, <<"/p", IF n <= 1 THEN 1 ELSE 0>>,
         200 + (n % 5), n, "ua", "space_time")

----------------------------------------------------------------------------
(* Commands and the terminal *)

SortBy == {"Count", "Path", "StatusCode", "IP", "UserAgent"}

Sort(k) == [cmd |-> "Sort", key |-> k]
IncreaseLimit == [cmd |-> "IncreaseLimit"]
DecreaseLimit == [cmd |-> "DecreaseLimit"]
Quit == [cmd |-> "Quit"]
Noop == [cmd |-> "Noop"]

\* lines 168-178: the command of a first character
command_of(c) ==
    CASE c = "q" -> Quit
      [] c = "s" -> Sort("StatusCode")
      [] c = "p" -> Sort("Path")
      [] c = "c" -> Sort("Count")
      [] c = "i" -> Sort("IP")
      [] c = "u" -> Sort("UserAgent")
      [] c = "+" -> IncreaseLimit
      [] c = "-" -> DecreaseLimit
      [] OTHER   -> Noop

\* Spec: the lines the operator may type (a line is its characters)
KeyLines ==
    { <<"q", "\n">>, <<"s", "\n">>, <<"+", "\n">>, <<"-", "\n">>, <<"x", "\n">> }

\* SpecTerm: every key, other first characters, and longer lines
TermLines ==
    { <<"q", "\n">>, <<"s", "\n">>, <<"p", "\n">>, <<"c", "\n">>, <<"i", "\n">>,
      <<"u", "\n">>, <<"+", "\n">>, <<"-", "\n">>, <<"x", "\n">>, <<"\n">>,
      <<"x", "q", "\n">>, <<"+", "q", "\n">> }

\* SpecSort: the operator only chooses a sort key
SortKeyLines ==
    { <<"s", "\n">>, <<"p", "\n">>, <<"c", "\n">>, <<"i", "\n">>, <<"u", "\n">> }

\* SpecLimit: the operator only lowers the limit
DownLines == { <<"-", "\n">> }

\* SpecQuit: the operator types q or a key that is none of the program
QuitLines == { <<"q", "\n">>, <<"x", "\n">> }

\* SpecKeys: the operator only adjusts the limit
LimitLines == { <<"+", "\n">>, <<"-", "\n">> }

----------------------------------------------------------------------------
Init ==
    /\ stats = StatsNew
    /\ mutex = "free"
    /\ now = 0
    /\ ipc = "read"
    /\ linesRead = 0
    /\ request = None
    /\ cpc = "open"
    /\ keysRead = 0
    /\ chan = << >>
    /\ rpc = "poll"
    /\ running = TRUE
    /\ sort_by = "Count"
    /\ display_limit = DefaultLimit
    /\ snap = None
    /\ screen = None
    /\ typed = << >>
    /\ sent = << >>
    /\ applied = << >>
    /\ recorded = 0
    /\ logErr = FALSE
    /\ lastLine = None

\* main has not returned: the process, and with it every thread, is alive
Alive == rpc \notin {"stopped", "failed"}

\* (variant) a lock that excludes nobody
can_lock_unguarded(m) == TRUE

\* Mutex::lock returns once nobody else holds the Mutex
can_lock(m) == m = "free"

\* (variant) the reader's guard dropped when Stats::update returns
reader_guard_until_update(pc) ==
    IF pc \in {"read", "rps"} THEN "free" ELSE "reader"

\* lines 138-146: the reader's guard `stats` lives to the end of the if-let
\* body, past the requests-per-second update: the Mutex when the reader is
\* at `pc`
reader_guard(pc) == IF pc = "read" THEN "free" ELSE "reader"

\* (variant) the guard of render_simple kept while the screen is written
main_guard_while_drawing(pc) ==
    IF pc \in {"clone", "draw"} THEN "main" ELSE "free"

\* line 230: the guard of render_simple is a temporary of the statement that
\* clones: the Mutex when the display loop is at `pc`
main_guard(pc) == IF pc = "clone" THEN "main" ELSE "free"

----------------------------------------------------------------------------
(* The log reader thread, lines 131-149 *)

\* what handle.lines() may yield next: Ok(line) or Err, after waiting `wait`
ReadOk(line, wait) == [ok |-> TRUE, line |-> line, wait |-> wait]
ReadErr(wait) == [ok |-> FALSE, line |-> Garbage, wait |-> wait]

\* Spec: any of the lines, one time unit later, or a read error
LogResults ==
    {ReadOk(l, 1) : l \in LogLines} \cup {ReadErr(0)}

\* SpecParse: any of the lines, at once
ParseResults == {ReadOk(l, 0) : l \in ParseLines}

\* SpecRps: the n-th item is the n-th line, one time unit later
RpsResults(n) == {ReadOk(RpsLine(n), 1)}

\* SpecSort: the n-th item is the n-th line, at once
SortResults(n) == {ReadOk(SortLine(n), 0)}

\* SpecLimit: the n-th item is the n-th line, at once
PathResults(n) == {ReadOk(PathLine(n), 0)}

\* SpecFill: the n-th item is the n-th well-formed line, one time unit later
FillResults(n) == {ReadOk(FillLine(n), 1)}

\* (variant) a read error ends the loop
read_next_stop_on_err(ok, parsed) ==
    IF ~ok THEN "done"
    ELSE IF parsed # None THEN "lock" ELSE "read"

\* lines 135-137: where the loop goes after an item: the body is skipped for
\* an Err item and for a line that does not parse, and the loop goes on
read_next(ok, parsed) ==
    IF ok /\ parsed # None THEN "lock" ELSE "read"

\* lines 135-137: the next item of handle.lines(); an Err item and a line
\* that does not parse are passed over and the loop goes on to the next item
IngestRead(results, max) ==
    /\ Alive
    /\ ipc = "read"
    /\ linesRead < max
    /\ \E res \in results :
          LET parsed == IF res.ok THEN parse_log_line(res.line) ELSE None
          IN  /\ now' = now + res.wait
              /\ linesRead' = linesRead + 1
              /\ request' = parsed
              /\ ipc' = read_next(res.ok, parsed)
              /\ logErr' = (logErr \/ ~res.ok)
              /\ lastLine' = res
    /\ UNCHANGED <<stats, mutex, inputVars, chan, rpc, running, viewVars, snap,
                   screen, applied, recorded>>

\* line 135: handle.lines() yields no more items, the for loop and the thread end
IngestEof(min) ==
    /\ Alive
    /\ ipc = "read"
    /\ linesRead >= min
    /\ ipc' = "done"
    /\ UNCHANGED <<stats, mutex, now, linesRead, request, inputVars, chan, rpc,
                   running, viewVars, snap, screen, histVars>>

\* line 138: stats_clone.lock().unwrap()
IngestLock ==
    /\ Alive
    /\ ipc = "lock"
    /\ can_lock(mutex)
    /\ mutex' = reader_guard("counters")
    /\ ipc' = "counters"
    /\ UNCHANGED <<stats, now, linesRead, request, inputVars, chan, rpc, running,
                   viewVars, snap, screen, histVars>>

\* one step of the critical section of lines 139-145
IngestStep(at, next, new, returns) ==
    /\ Alive
    /\ ipc = at
    /\ stats' = new
    /\ ipc' = next
    /\ recorded' = recorded + returns
    /\ mutex' = reader_guard(next)
    /\ UNCHANGED <<now, linesRead, request, inputVars, chan, rpc, running,
                   viewVars, snap, screen, applied, logErr, lastLine>>

IngestCounters ==
    IngestStep("counters", "histograms", update_counters(stats, request), 0)
IngestHistograms ==
    IngestStep("histograms", "push", update_histograms(stats, request), 0)
IngestPush ==
    IngestStep("push", "evict", update_push(stats, request), 0)
IngestEvict ==
    IngestStep("evict", "rps", update_evict(stats), 1)

\* lines 142-146: the requests-per-second update, then the guard is dropped
IngestRps ==
    /\ Alive
    /\ ipc = "rps"
    /\ stats' = update_rps(stats, now)
    /\ mutex' = reader_guard("read")
    /\ request' = None
    /\ ipc' = "read"
    /\ UNCHANGED <<now, linesRead, inputVars, chan, rpc, running, viewVars, snap,
                   screen, histVars>>

\* lines 129 and 142: start_time.elapsed() grows while the threads wait
TimePasses(max) ==
    /\ Alive
    /\ now < max
    /\ now' = now + 1
    /\ UNCHANGED <<stats, mutex, readerVars, inputVars, chan, rpc, running,
                   viewVars, snap, screen, histVars>>

Ingest ==
    \/ IngestLock
    \/ IngestCounters
    \/ IngestHistograms
    \/ IngestPush
    \/ IngestEvict
    \/ IngestRps

----------------------------------------------------------------------------
(* The terminal input thread, lines 156-195 *)

\* what reader.read_line(&mut buffer) may leave: Ok with the buffer, or Err
LineOk(buf) == [ok |-> TRUE, buf |-> buf]
LineErr == [ok |-> FALSE, buf |-> << >>]

\* Spec: a line, end of input (Ok with an empty buffer) or an error
KeyResults == {LineOk(l) : l \in KeyLines} \cup {LineOk(<< >>), LineErr}

\* SpecTerm: the same over every line of TermLines
TermResults == {LineOk(l) : l \in TermLines} \cup {LineOk(<< >>), LineErr}

\* SpecSort: lines starting with a sort key
SortKeyResults == {LineOk(l) : l \in SortKeyLines}

\* SpecLimit: lines starting with -
DownResults == {LineOk(l) : l \in DownLines}

\* SpecQuit: lines starting with q or x
QuitResults == {LineOk(l) : l \in QuitLines}

\* SpecKeys: lines starting with + or -
LimitResults == {LineOk(l) : l \in LimitLines}

\* line 158: File::open("/dev/tty"); line 193 when it fails
CmdOpen(oks) ==
    /\ Alive
    /\ cpc = "open"
    /\ \E ok \in oks : cpc' = IF ok THEN "read" ELSE "disabled"
    /\ UNCHANGED <<stats, mutex, now, readerVars, keysRead, typed, sent, chan, rpc,
                   running, viewVars, snap, screen, histVars>>

\* (variant) the loop goes on after a Quit
after_send_goes_on(c) == "read"

\* lines 166 and 184-186: the loop is left after a Quit has been sent
after_send(c) ==
    IF c = "q" THEN "done" ELSE "read"

\* (variant) the last character typed before the end of the line
first_char_last_typed(buf) ==
    IF Len(buf) >= 2 THEN buf[Len(buf) - 1] ELSE buf[1]

\* line 165: buffer.chars().next()
first_char(buf) == Head(buf)

\* (variant) the loop is entered whether or not the terminal was opened
can_read_unopened(pc) == pc \in {"read", "disabled"}

\* lines 158-162: the loop runs only inside `if let Ok(file)`
can_read(pc) == pc = "read"

\* lines 162-191: one iteration of the loop
CmdRead(results, max) ==
    /\ Alive
    /\ can_read(cpc)
    /\ keysRead < max
    /\ keysRead' = keysRead + 1
    /\ \E res \in results :
          IF ~res.ok
          THEN /\ cpc' = "done"
               /\ UNCHANGED <<chan, typed, sent>>
          ELSE IF res.buf = << >>
          THEN UNCHANGED <<cpc, chan, typed, sent>>
          ELSE LET c == first_char(res.buf)
                   command == command_of(c)
               IN  /\ chan' = Append(chan, command)
                   /\ typed' = Append(typed, res.buf)
                   /\ sent' = Append(sent, command)
                   /\ cpc' = after_send(c)
    /\ UNCHANGED <<stats, mutex, now, readerVars, rpc, running, viewVars, snap,
                   screen, histVars>>

----------------------------------------------------------------------------
(* The main display loop, lines 198-222, and render_simple *)

\* (variant) a command that is not a key of the program stops the loop too
apply_command_noop_stops(command, view) ==
    CASE command.cmd \in {"Quit", "Noop"} -> [view EXCEPT !.running = FALSE]
      [] command.cmd = "Sort" -> [view EXCEPT !.sort_by = command.key]
      [] command.cmd = "IncreaseLimit" ->
            [view EXCEPT !.display_limit = @ + LimitStep]
      [] command.cmd = "DecreaseLimit" ->
            IF view.display_limit > LimitFloor
            THEN [view EXCEPT !.display_limit = @ - LimitStep]
            ELSE view
      [] OTHER -> view

\* (variant) the limit is decreased while it is at least 5
apply_command_floor_inclusive(command, view) ==
    CASE command.cmd = "Quit" -> [view EXCEPT !.running = FALSE]
      [] command.cmd = "Sort" -> [view EXCEPT !.sort_by = command.key]
      [] command.cmd = "IncreaseLimit" ->
            [view EXCEPT !.display_limit = @ + LimitStep]
      [] command.cmd = "DecreaseLimit" ->
            IF view.display_limit >= LimitFloor
            THEN [view EXCEPT !.display_limit = @ - LimitStep]
            ELSE view
      [] OTHER -> view

\* (variant) a Quit that is received and does nothing
apply_command_quit_ignored(command, view) ==
    CASE command.cmd = "Sort" -> [view EXCEPT !.sort_by = command.key]
      [] command.cmd = "IncreaseLimit" ->
            [view EXCEPT !.display_limit = @ + LimitStep]
      [] command.cmd = "DecreaseLimit" ->
            IF view.display_limit > LimitFloor
            THEN [view EXCEPT !.display_limit = @ - LimitStep]
            ELSE view
      [] OTHER -> view

\* (variant) a command that is not a key of the program sorts by path
apply_command_noop_sorts(command, view) ==
    CASE command.cmd = "Quit" -> [view EXCEPT !.running = FALSE]
      [] command.cmd = "Sort" -> [view EXCEPT !.sort_by = command.key]
      [] command.cmd = "IncreaseLimit" ->
            [view EXCEPT !.display_limit = @ + LimitStep]
      [] command.cmd = "DecreaseLimit" ->
            IF view.display_limit > LimitFloor
            THEN [view EXCEPT !.display_limit = @ - LimitStep]
            ELSE view
      [] OTHER -> [view EXCEPT !.sort_by = "Path"]

\* lines 203-213: what a received command does to running and the view
apply_command(command, view) ==
    CASE command.cmd = "Quit" -> [view EXCEPT !.running = FALSE]
      [] command.cmd = "Sort" -> [view EXCEPT !.sort_by = command.key]
      [] command.cmd = "IncreaseLimit" ->
            [view EXCEPT !.display_limit = @ + LimitStep]
      [] command.cmd = "DecreaseLimit" ->
            IF view.display_limit > LimitFloor
            THEN [view EXCEPT !.display_limit = @ - LimitStep]
            ELSE view
      [] OTHER -> view

----------------------------------------------------------------------------
(* render_simple, lines 264-310: the rows of the table.  A text that is    *)
(* compared is the sequence of its bytes.  The widths of the columns are   *)
(* formatting and are left out.                                            *)

\* Ord::cmp of two integers
cmp_int(a, b) ==
    IF a < b THEN "Less" ELSE IF a > b THEN "Greater" ELSE "Equal"

\* Ord::cmp of two Strings: lexicographic by bytes
RECURSIVE cmp_str(_, _)
cmp_str(a, b) ==
    IF a = << >> /\ b = << >> THEN "Equal"
    ELSE IF a = << >> THEN "Less"
    ELSE IF b = << >> THEN "Greater"
    ELSE IF Head(a) # Head(b) THEN cmp_int(Head(a), Head(b))
    ELSE cmp_str(Tail(a), Tail(b))

\* (variant) the count compared in ascending order
compare_count_ascending(key, a, b) ==
    CASE key = "Count"      -> cmp_int(a.count, b.count)
      [] key = "Path"       -> cmp_str(a.path, b.path)
      [] key = "StatusCode" -> cmp_int(a.status, b.status)
      [] key = "IP"         -> cmp_str(a.ip, b.ip)
      [] key = "UserAgent"  -> cmp_str(a.user_agent, b.user_agent)

\* lines 280-286: the closure given to sort_by for each sort key
compare(key, a, b) ==
    CASE key = "Count"      -> cmp_int(b.count, a.count)
      [] key = "Path"       -> cmp_str(a.path, b.path)
      [] key = "StatusCode" -> cmp_int(a.status, b.status)
      [] key = "IP"         -> cmp_str(a.ip, b.ip)
      [] key = "UserAgent"  -> cmp_str(a.user_agent, b.user_agent)

\* a row is put before the first row that is greater than it
RECURSIVE insert_row(_, _, _)
insert_row(sorted, x, key) ==
    IF sorted = << >> THEN <<x>>
    ELSE IF compare(key, Head(sorted), x) = "Greater" THEN <<x>> \o sorted
    ELSE <<Head(sorted)>> \o insert_row(Tail(sorted), x, key)

\* lines 280-286: slice::sort_by, a stable sort
RECURSIVE sort_rows(_, _)
sort_rows(rows, key) ==
    IF rows = << >> THEN << >>
    ELSE insert_row(sort_rows(SubSeq(rows, 1, Len(rows) - 1), key),
                    rows[Len(rows)], key)

\* (variant) the last held request of the path
find_path_newest(recent, path) ==
    LET hits == {i \in 1..Len(recent) : recent[i].path = path}
    IN  IF hits = {} THEN 0
        ELSE CHOOSE i \in hits : \A j \in hits : i >= j

\* line 268: recent_requests.iter().find(|r| &r.path == path), as an index
\* of recent_requests, or 0 when no held request has the path
find_path(recent, path) ==
    LET hits == {i \in 1..Len(recent) : recent[i].path = path}
    IN  IF hits = {} THEN 0
        ELSE CHOOSE i \in hits : \A j \in hits : i <= j

\* lines 267-277: one row for each path of stats.paths, visited in `order`,
\* of which recent_requests holds a request
RECURSIVE join_rows(_, _)
join_rows(s, order) ==
    IF order = << >> THEN << >>
    ELSE LET path == Head(order)
             i == find_path(s.recent_requests, path)
         IN  (IF i = 0 THEN << >>
              ELSE << [ path       |-> path,
                        count      |-> s.paths[path],
                        ip         |-> s.recent_requests[i].ip,
                        status     |-> s.recent_requests[i].status_code,
                        user_agent |-> s.recent_requests[i].user_agent ] >>)
             \o join_rows(s, Tail(order))

\* (variant) Iterator::take that yields one item more
take_one_more(rows, n) ==
    IF Len(rows) <= n + 1 THEN rows ELSE SubSeq(rows, 1, n + 1)

\* line 289: Iterator::take
take(rows, n) ==
    IF Len(rows) <= n THEN rows ELSE SubSeq(rows, 1, n)

RECURSIVE SeqOf(_)
SeqOf(keys) ==
    IF keys = {} THEN << >>
    ELSE LET k == CHOOSE j \in keys : TRUE
         IN  <<k>> \o SeqOf(keys \ {k})

Reverse(q) == [i \in 1..Len(q) |-> q[Len(q) + 1 - i]]

Rotate(q, n) == [i \in 1..Len(q) |-> q[((i + n - 1) % Len(q)) + 1]]

\* lines 241 and 267: HashMap::iter visits the keys in an arbitrary order.
\* The orders tried are the rotations of one enumeration of the keys and of
\* its reverse: every order of up to three keys, 2n orders of n keys beyond
iter_orders(keys) ==
    IF keys = {} THEN {<< >>}
    ELSE LET base == SeqOf(keys)
         IN  {Rotate(base, n) : n \in 0..(Len(base) - 1)}
             \cup {Rotate(Reverse(base), n) : n \in 0..(Len(base) - 1)}

\* lines 241-245: the status codes shown, with their counts: the 5 highest
\* counts, any of the codes of equal count at the cut
top_status(codes) ==
    LET n == IF Cardinality(DOMAIN codes) <= PanelSize
             THEN Cardinality(DOMAIN codes) ELSE PanelSize
    IN  { {<<c, codes[c]>> : c \in shown} :
            shown \in { S \in SUBSET DOMAIN codes :
                          /\ Cardinality(S) = n
                          /\ \A c \in S, d \in (DOMAIN codes) \ S :
                                codes[c] >= codes[d] } }

\* lines 232-310: what render_simple writes from the clone `s`, with the
\* vector paths_to_display as it was built (joined) and as it was sorted
drawn(s, key, limit, order, panel) ==
    LET joined == join_rows(s, order)
        sorted == sort_rows(joined, key)
    IN  [ total  |-> s.total_requests,
          rps    |-> s.requests_per_second,
          bytes  |-> s.bytes_sent,
          panel  |-> panel,
          sort   |-> key,
          joined |-> joined,
          sorted |-> sorted,
          rows   |-> take(sorted, limit) ]

\* (variant) a receive that takes the newest pending command
try_recv_newest(q) ==
    IF q = << >> THEN [got |-> FALSE, command |-> Noop, rest |-> q]
                 ELSE [got |-> TRUE, command |-> q[Len(q)],
                       rest |-> SubSeq(q, 1, Len(q) - 1)]

\* line 202: rx.try_recv() takes the oldest pending command, if there is one
try_recv(q) ==
    IF q = << >> THEN [got |-> FALSE, command |-> Noop, rest |-> q]
                 ELSE [got |-> TRUE, command |-> Head(q), rest |-> Tail(q)]

\* lines 200-214 and 227: the loop is entered and at most one command is
\* handled; render_simple begins by clearing the screen
RenderPoll ==
    /\ rpc = "poll"
    /\ LET r == try_recv(chan)
           view == [running |-> running, sort_by |-> sort_by,
                    display_limit |-> display_limit]
           new == IF r.got THEN apply_command(r.command, view) ELSE view
       IN  /\ chan' = r.rest
           /\ applied' = IF r.got THEN Append(applied, r.command) ELSE applied
           /\ running' = new.running
           /\ sort_by' = new.sort_by
           /\ display_limit' = new.display_limit
    /\ rpc' = "lock"
    /\ screen' = None
    /\ UNCHANGED <<stats, mutex, now, readerVars, inputVars, snap, recorded,
                   logErr, lastLine>>

\* line 230: self.stats.lock().unwrap()
RenderLock ==
    /\ rpc = "lock"
    /\ can_lock(mutex)
    /\ mutex' = main_guard("clone")
    /\ rpc' = "clone"
    /\ UNCHANGED <<stats, now, readerVars, inputVars, chan, running, viewVars,
                   snap, screen, histVars>>

\* line 230: .clone(), and the guard is dropped at the end of the statement
RenderClone ==
    /\ rpc = "clone"
    /\ snap' = stats
    /\ mutex' = main_guard("draw")
    /\ rpc' = "draw"
    /\ UNCHANGED <<stats, now, readerVars, inputVars, chan, running, viewVars,
                   screen, histVars>>

\* lines 232-313 and 217: the screen is written from the clone; a failed
\* flush is returned by `?` out of render_simple and out of start
RenderDraw ==
    /\ rpc = "draw"
    /\ \E ok \in BOOLEAN, order \in iter_orders(DOMAIN snap.paths),
          panel \in top_status(snap.status_codes) :
          /\ rpc' = IF ok THEN "sleep" ELSE "failed"
          /\ screen' = IF ok THEN drawn(snap, sort_by, display_limit, order, panel)
                              ELSE screen
    /\ snap' = None
    /\ UNCHANGED <<stats, mutex, now, readerVars, inputVars, chan, running,
                   viewVars, histVars>>

\* lines 219-220 and 200: the sleep, then the test of `running`
RenderSleep ==
    /\ rpc = "sleep"
    /\ rpc' = IF running THEN "poll" ELSE "stopped"
    /\ UNCHANGED <<stats, mutex, now, readerVars, inputVars, chan, running,
                   viewVars, snap, screen, histVars>>

Render ==
    \/ RenderPoll
    \/ RenderLock
    \/ RenderClone
    \/ RenderDraw
    \/ RenderSleep

----------------------------------------------------------------------------
(* Specifications *)

\* any log stream of at most MaxLines items, any terminal input of at most
\* MaxCmds reads
Next ==
    \/ IngestRead(LogResults, MaxLines)
    \/ IngestEof(0)
    \/ Ingest
    \/ CmdOpen(BOOLEAN)
    \/ CmdRead(KeyResults, MaxCmds)
    \/ Render

Spec == Init /\ [][Next]_vars

\* any log stream of at most MaxLines items, a terminal whose operator types
\* q or another key at most MaxCmds times
NextQuit ==
    \/ IngestRead(LogResults, MaxLines)
    \/ IngestEof(0)
    \/ Ingest
    \/ CmdOpen({TRUE})
    \/ CmdRead(QuitResults, MaxCmds)
    \/ Render

\* the scheduler lets each thread that can step do so in the end: the
\* display loop, and the log reader once it has a request in hand (the log
\* stream and the operator may stay silent for ever)
SpecQuit == Init /\ [][NextQuit]_vars /\ WF_vars(Render) /\ WF_vars(Ingest)

\* an empty log stream, any terminal input of at most MaxTerm reads
NextTerm ==
    \/ IngestEof(0)
    \/ CmdOpen(BOOLEAN)
    \/ CmdRead(TermResults, MaxTerm)
    \/ Render

SpecTerm == Init /\ [][NextTerm]_vars

\* a log stream of MaxFill well-formed distinct lines, a terminal whose open
\* has not returned
NextFill ==
    \/ IngestRead(FillResults(linesRead + 1), MaxFill)
    \/ IngestEof(MaxFill)
    \/ Ingest
    \/ Render

SpecFill == Init /\ [][NextFill]_vars

\* an empty log stream, a terminal whose operator types only + and -
NextKeys ==
    \/ IngestEof(0)
    \/ CmdOpen({TRUE})
    \/ CmdRead(LimitResults, MaxKeys)
    \/ Render

SpecKeys == Init /\ [][NextKeys]_vars

\* a log stream of at most MaxParse lines, well-formed or not, a terminal
\* whose open has not returned
NextParse ==
    \/ IngestRead(ParseResults, MaxParse)
    \/ IngestEof(0)
    \/ Ingest
    \/ Render

SpecParse == Init /\ [][NextParse]_vars

\* a log stream of MaxRps well-formed lines, time that passes between the
\* steps of the threads, a terminal whose open has not returned
NextRps ==
    \/ IngestRead(RpsResults(linesRead + 1), MaxRps)
    \/ IngestEof(MaxRps)
    \/ Ingest
    \/ TimePasses(MaxTime)
    \/ Render

SpecRps == Init /\ [][NextRps]_vars

\* a log stream of MaxSort lines over three paths, a terminal whose operator
\* types at most MaxSortKeys sort keys
NextSort ==
    \/ IngestRead(SortResults(linesRead + 1), MaxSort)
    \/ IngestEof(MaxSort)
    \/ Ingest
    \/ CmdOpen({TRUE})
    \/ CmdRead(SortKeyResults, MaxSortKeys)
    \/ Render

SpecSort == Init /\ [][NextSort]_vars

\* a log stream of MaxPaths lines of distinct paths, a terminal whose
\* operator types - at most MaxDown times
NextLimit ==
    \/ IngestRead(PathResults(linesRead + 1), MaxPaths)
    \/ IngestEof(MaxPaths)
    \/ Ingest
    \/ CmdOpen({TRUE})
    \/ CmdRead(DownResults, MaxDown)
    \/ Render

SpecLimit == Init /\ [][NextLimit]_vars

----------------------------------------------------------------------------
(* The aggregate store *)

\* Stats::update has been entered and has not returned
InUpdate == ipc \in {"histograms", "push", "evict"}

Min(a, b) == IF a < b THEN a ELSE b

\* C1: after N calls of Stats::update on a fresh Stats, total_requests is N
\* and the values of each of the four histograms add up to N
C1_CountsEqualRecords ==
    ~InUpdate =>
        /\ stats.total_requests = recorded
        /\ SumValues(stats.status_codes) = recorded
        /\ SumValues(stats.paths) = recorded
        /\ SumValues(stats.ips) = recorded
        /\ SumValues(stats.methods) = recorded

\* 101 requests recorded, over several keys of each histogram
C1_Witness ==
    /\ ~InUpdate
    /\ recorded = MaxRecent + 1
    /\ stats.total_requests = MaxRecent + 1
    /\ Cardinality(DOMAIN stats.paths) = 2
    /\ Cardinality(DOMAIN stats.status_codes) = 5

\* C2: whatever the interleaving of the log reader and the display loop, a
\* clone taken by render_simple never holds more than 100 recent requests
C2_SnapshotBounded ==
    snap # None => Len(snap.recent_requests) <= MaxRecent

\* the display loop holds a full clone while the log reader is between the
\* push and the removal, with 101 requests in the shared Stats
C2_Witness ==
    /\ snap # None
    /\ Len(snap.recent_requests) = MaxRecent
    /\ ipc = "evict"
    /\ Len(stats.recent_requests) = MaxRecent + 1

\* SpecFill: the request made from the n-th line of the log stream
FillRequest(n) == parse_log_line(FillLine(n))

\* the last min(n, 100) of the first n requests, oldest first
LastRecorded(n) ==
    [i \in 1..Min(n, MaxRecent) |-> FillRequest(n - Min(n, MaxRecent) + i)]

\* C3: after the requests e1..eN have been recorded in that order,
\* recent_requests is the last min(N, 100) of them in arrival order
C3_RecentIsLastRecorded ==
    ipc # "evict" => stats.recent_requests = LastRecorded(recorded)

\* 101 distinct requests recorded: e1 is gone, e2..e101 are held in order
C3_Witness ==
    /\ recorded = MaxRecent + 1
    /\ Len(stats.recent_requests) = MaxRecent
    /\ stats.recent_requests[1] = FillRequest(2)
    /\ stats.recent_requests[MaxRecent] = FillRequest(MaxRecent + 1)
    /\ \A i \in 1..MaxRecent : stats.recent_requests[i] # FillRequest(1)

----------------------------------------------------------------------------
(* The view *)

\* the limit the commands cs give when applied in order from limit l:
\* IncreaseLimit adds 5, DecreaseLimit takes 5 off above 5 and nothing at 5
RECURSIVE LimitAfter(_, _)
LimitAfter(l, cs) ==
    IF cs = << >> THEN l
    ELSE LET c == Head(cs)
             next == CASE c = IncreaseLimit -> l + 5
                       [] c = DecreaseLimit -> (IF l > 5 THEN l - 5 ELSE l)
                       [] OTHER -> l
         IN  LimitAfter(next, Tail(cs))

Times(c, n) == [i \in 1..n |-> c]

\* C4: from 20, after any commands display_limit is at least 5 and a multiple
\* of 5; IncreaseLimit adds exactly 5, DecreaseLimit takes exactly 5 off above
\* 5 and leaves 5 alone: three increases give 35, ten decreases from 35 give 5
C4_LimitSteps ==
    /\ display_limit >= 5
    /\ display_limit % 5 = 0
    /\ display_limit = LimitAfter(20, applied)
    /\ applied = Times(IncreaseLimit, 3) => display_limit = 35
    /\ applied = Times(IncreaseLimit, 3) \o Times(DecreaseLimit, 10)
          => display_limit = 5

\* three increases and then ten decreases have been applied
C4_Witness ==
    /\ applied = Times(IncreaseLimit, 3) \o Times(DecreaseLimit, 10)
    /\ display_limit = 5

----------------------------------------------------------------------------
(* The command channel and the display loop *)

\* a step that begins a tick: the loop body is entered and the channel polled
TickStep == rpc = "poll" /\ rpc' = "lock"

\* C5: a tick takes at most one command off the channel whatever the backlog,
\* and the commands are applied in the order they were sent: every tick that
\* finds commands pending applies exactly the oldest of them
C5_OnePerTickFifo ==
    /\ [](sent = applied \o chan)
    /\ [][ /\ (applied' # applied \/ Len(chan') < Len(chan)) => TickStep
           /\ TickStep /\ chan # << >> =>
                 /\ applied' = Append(applied, Head(chan))
                 /\ chan' = Tail(chan)
           /\ TickStep /\ chan = << >> =>
                 /\ applied' = applied
                 /\ chan' = chan ]_vars

\* one command has been applied and two different ones are pending
C5_Witness ==
    /\ Len(applied) = 1
    /\ Len(chan) = 2
    /\ chan[1] # chan[2]
    /\ applied[1] # chan[1]
    /\ rpc = "poll"

\* the main display loop has been left
LoopLeft == rpc \in {"stopped", "failed"}

\* a Quit has been received by the main display loop
QuitReceived == \E i \in 1..Len(applied) : applied[i] = Quit

\* C6 as stated: the display loop leaves its running state only through a
\* received Quit
C6_Original ==
    LoopLeft => QuitReceived

\* C6, amended: the display loop is left through a received Quit or through
\* an error returned by render_simple; where it was left without an error a
\* Quit has been received, and the tick that receives Quit is the last: no
\* tick begins after it, and the loop stops after the sleep that follows its
\* render
C6_StopsByQuitOrError ==
    /\ [](rpc = "stopped" => QuitReceived /\ applied[Len(applied)] = Quit)
    /\ [](QuitReceived <=> ~running)
    /\ [][ /\ QuitReceived => ~TickStep
           /\ (rpc' = "stopped" /\ rpc # "stopped") => rpc = "sleep"
           /\ (rpc' = "failed" /\ rpc # "failed") => rpc = "draw" ]_vars

\* the loop has stopped on a Quit that followed another command
C6_Witness ==
    /\ rpc = "stopped"
    /\ Len(applied) = 2
    /\ applied[1] # Quit
    /\ applied[2] = Quit

----------------------------------------------------------------------------
(* The end of the log stream *)

RenderCanStep == ENABLED Render

\* C7 as stated: once the log stream has ended or has yielded a read error
\* the log reader has terminated and Stats is never changed again
C7_Original ==
    [][(ipc = "done" \/ logErr) => stats' = stats]_vars

\* C7, amended: at the end of the log stream the log reader terminates, from
\* then on Stats is never changed and the display loop keeps ticking over the
\* last statistics; a read error only skips the item and the loop reads on
C7_EofEndsIngestion ==
    /\ [][ /\ ipc = "done" => (ipc' = "done" /\ stats' = stats)
           /\ (~logErr /\ logErr') =>
                 (ipc' = "read" /\ request' = None /\ stats' = stats) ]_vars
    /\ []((ipc = "done" /\ Alive) => (mutex # "reader" /\ RenderCanStep))

\* the stream yielded an error and a line that was recorded, then ended, and
\* the display loop holds a clone with that request
C7_Witness ==
    /\ ipc = "done"
    /\ logErr
    /\ recorded = 1
    /\ snap # None
    /\ snap.total_requests = 1

----------------------------------------------------------------------------
(* The terminal input thread *)

QuitSent == \E i \in 1..Len(sent) : sent[i] = Quit

\* C8: after sending Quit the terminal input thread reads and sends nothing
\* more: a Quit is the last command sent and the last of the channel
C8_QuitIsLast ==
    /\ [](\A i \in 1..Len(sent) : sent[i] = Quit => i = Len(sent))
    /\ [](\A i \in 1..Len(chan) : chan[i] = Quit => i = Len(chan))
    /\ [](QuitSent => cpc = "done")
    /\ [][QuitSent => (sent' = sent /\ keysRead' = keysRead /\ typed' = typed)]_vars

\* a Quit was sent after another command, with reads left and the loop alive
C8_Witness ==
    /\ Len(sent) = 2
    /\ sent[2] = Quit
    /\ chan = sent
    /\ keysRead < MaxTerm
    /\ Alive

\* the command the keys stand for
KeyTable ==
    [c \in {"q", "s", "p", "c", "i", "u", "+", "-"} |->
        CASE c = "q" -> Quit
          [] c = "s" -> Sort("StatusCode")
          [] c = "p" -> Sort("Path")
          [] c = "c" -> Sort("Count")
          [] c = "i" -> Sort("IP")
          [] c = "u" -> Sort("UserAgent")
          [] c = "+" -> IncreaseLimit
          [] c = "-" -> DecreaseLimit]

CommandFor(line) ==
    IF line[1] \in DOMAIN KeyTable THEN KeyTable[line[1]] ELSE Noop

\* C9: one command is sent for each line read, and it is the command of the
\* line's first character alone; any other first character gives Noop
C9_FirstCharDecides ==
    /\ Len(sent) = Len(typed)
    /\ \A i \in 1..Len(typed) : sent[i] = CommandFor(typed[i])

\* lines whose later characters are keys, then a q
C9_Witness ==
    /\ typed = << <<"x", "q", "\n">>, <<"+", "q", "\n">>, <<"q", "\n">> >>
    /\ sent = <<Noop, IncreaseLimit, Quit>>

\* the log reader is not stuck: it can step, has finished, or waits for the
\* Mutex while the display loop clones
ReaderCanStep ==
    \/ ENABLED (Ingest \/ IngestRead(LogResults, MaxLines) \/ IngestEof(0))
    \/ ipc = "done"
    \/ (ipc = "lock" /\ mutex = "main")

\* C10: when the terminal cannot be opened no command is ever sent, the view
\* keeps its defaults, and the log reader and the display loop go on
C10_NoTerminal ==
    /\ [](cpc = "disabled" =>
            /\ sent = << >> /\ chan = << >> /\ applied = << >>
            /\ sort_by = "Count" /\ display_limit = 20 /\ running
            /\ rpc # "stopped"
            /\ Alive => (ReaderCanStep /\ (RenderCanStep \/ mutex = "reader")))
    /\ [][cpc = "disabled" =>
            /\ cpc' = "disabled"
            /\ UNCHANGED <<sent, chan, sort_by, display_limit, running>>]_vars

\* without a terminal two requests were recorded and cloned for display
C10_Witness ==
    /\ cpc = "disabled"
    /\ recorded = 2
    /\ snap # None
    /\ snap.total_requests = 2

----------------------------------------------------------------------------
\* the reader holds the guard of the Mutex
ReaderHolds == ipc \in {"counters", "histograms", "push", "evict", "rps"}

\* the log reader has just taken an item from the stream
ReadStep == linesRead' = linesRead + 1

\* the line breaks the grammar: another shape, a timestamp that does not
\* parse, a status that is no u16 or a bytes field that is no usize
Violates(line) ==
    \/ line.shape # "log"
    \/ ~line.ts_ok
    \/ line.status > MaxU16
    \/ ~line.bytes_fits

\* C11: a line that violates the grammar (pattern mismatch, unparsable
\* timestamp, status or bytes that is no integer of the field's type) parses
\* to nothing, never to a partial request; the reader leaves every field of
\* the Stats as it was and goes on to the next line: it takes the guard and
\* changes the Stats only for a line that does not violate the grammar
C11_RejectedLeavesStore ==
    /\ [](ipc \in {"lock"} \cup {"counters", "histograms", "push", "evict", "rps"}
            => /\ lastLine.ok
               /\ ~Violates(lastLine.line)
               /\ request # None)
    /\ [][/\ (ReadStep /\ lastLine'.ok /\ Violates(lastLine'.line))
                => (request' = None /\ stats' = stats /\ ipc' = "read")
           /\ (stats' # stats => ReaderHolds)]_vars

\* a line whose status is beyond u16 was read after a line that was recorded:
\* the reader is back at the stream and the one request is all the Stats hold
C11_Witness ==
    /\ linesRead = 2
    /\ lastLine.ok
    /\ lastLine.line.shape = "log"
    /\ lastLine.line.status > MaxU16
    /\ ipc = "read"
    /\ stats.total_requests = 1
    /\ Len(stats.recent_requests) = 1

\* the line has the grammar of the access log, with or without the trailing
\* response time
Conforms(line) ==
    /\ line.shape = "log"
    /\ line.ts_ok
    /\ line.status <= MaxU16
    /\ line.bytes_fits
    /\ line.tail \in {"end", "space_time"}

\* the request made of the parts of a conforming line
EventOf(line) ==
    [ ip            |-> line.ip,
      method        |-> line.method,
      path          |-> line.path,
      status_code   |-> line.status,
      bytes_sent    |-> line.bytes,
      user_agent    |-> line.ua,
      response_time |-> IF line.tail = "space_time" THEN "given" ELSE "zero" ]

\* C12: every line that conforms to the grammar parses to a request whose
\* fields are the parts of the line: with the response time 0.0 when the line
\* ends at the closing quote of the user agent, with the given response time
\* when one follows
C12_ConformingParses ==
    [][(ReadStep /\ lastLine'.ok /\ Conforms(lastLine'.line))
          => request' = EventOf(lastLine'.line)]_vars

----------------------------------------------------------------------------
\* render_simple has just taken its clone of the Stats
CloneStep == rpc = "clone" /\ rpc' = "draw"

\* C13 as stated: the requests-per-second of a clone is total_requests
\* divided by the time elapsed since the start when the clone is taken
C13_Original ==
    [][(CloneStep /\ now > 0)
          => snap'.requests_per_second.num * now
               = snap'.total_requests * snap'.requests_per_second.den]_vars

\* C13: the requests-per-second of a clone is the figure cached by the last
\* completed record: the total_requests of that record divided by the time
\* elapsed from the start to that record (0.0 while nothing is recorded).
\* Only the step of lines 142-145 changes it; time that passes afterwards
\* does not, so the figure of a later clone is total_requests divided by an
\* elapsed time that may lie in the past
C13_CachedAtRecord ==
    /\ [](~ReaderHolds =>
            /\ stats.requests_per_second.num = stats.total_requests
            /\ (stats.total_requests > 0 =>
                  (stats.requests_per_second.den >= 1
                     /\ stats.requests_per_second.den <= now)))
    /\ [](screen # None => screen.rps.num = screen.total)
    /\ [][/\ ((ipc = "rps" /\ ipc' = "read" /\ now > 0)
                 => stats'.requests_per_second
                      = [num |-> stats.total_requests, den |-> now])
           /\ ((stats'.requests_per_second # stats.requests_per_second)
                 => ipc = "rps")
           /\ (CloneStep
                 => snap'.requests_per_second = stats.requests_per_second)]_vars

\* three requests were recorded at time 3 and are cloned and shown later:
\* the figure is still 3 / 3
C13_Witness ==
    /\ screen # None
    /\ screen.total = 3
    /\ screen.rps = [num |-> 3, den |-> 3]
    /\ now > 3
    /\ ipc = "done"

----------------------------------------------------------------------------
\* lexicographic order of two texts: the first is a prefix of the second, or
\* is the smaller at the first position where they differ
LexLe(a, b) ==
    \/ /\ Len(a) <= Len(b)
       /\ \A i \in 1..Len(a) : a[i] = b[i]
    \/ \E i \in 1..Min(Len(a), Len(b)) :
          /\ a[i] < b[i]
          /\ \A j \in 1..(i - 1) : a[j] = b[j]

\* row a may stand before row b under the sort key
KeyLe(key, a, b) ==
    CASE key = "Count"      -> a.count >= b.count
      [] key = "Path"       -> LexLe(a.path, b.path)
      [] key = "StatusCode" -> a.status <= b.status
      [] key = "IP"         -> LexLe(a.ip, b.ip)
      [] key = "UserAgent"  -> LexLe(a.user_agent, b.user_agent)

\* the place of a row in a vector of rows
PlaceOf(rows, r) == CHOOSE i \in 1..Len(rows) : rows[i] = r

\* C14: the rows are ordered by the sort key in force: by count descending,
\* by path, address or user agent ascending as texts, by status ascending as
\* a number; the sort is stable: rows of equal key keep the order in which
\* they were found when the rows were built
C14_SortedStable ==
    screen # None =>
        /\ screen.sort = sort_by
        /\ Len(screen.sorted) = Len(screen.joined)
        /\ {screen.sorted[i] : i \in 1..Len(screen.sorted)}
             = {screen.joined[i] : i \in 1..Len(screen.joined)}
        /\ \A i, j \in 1..Len(screen.sorted) :
              i < j =>
                /\ KeyLe(screen.sort, screen.sorted[i], screen.sorted[j])
                /\ (KeyLe(screen.sort, screen.sorted[j], screen.sorted[i])
                      => PlaceOf(screen.joined, screen.sorted[i])
                           < PlaceOf(screen.joined, screen.sorted[j]))

\* the rows (5, /a), (1, /b), (5, /c) found in this order and sorted by count
\* are shown as /a, /c, /b
C14_Witness ==
    /\ screen # None
    /\ screen.sort = "Count"
    /\ [i \in 1..Len(screen.joined) |->
          <<screen.joined[i].count, screen.joined[i].path>>]
         = << <<5, <<47, 97>> >>, <<1, <<47, 98>> >>, <<5, <<47, 99>> >> >>
    /\ [i \in 1..Len(screen.rows) |-> screen.rows[i].path]
         = << <<47, 97>>, <<47, 99>>, <<47, 98>> >>

----------------------------------------------------------------------------
\* C15: the rows shown are min(display_limit, number of rows built) in
\* number and are the first rows of the sorted vector, in its order; no more
\* than display_limit rows are shown
C15_RowsTruncated ==
    screen # None =>
        /\ Len(screen.rows) = Min(display_limit, Len(screen.sorted))
        /\ Len(screen.rows) <= display_limit
        /\ \A i \in 1..Len(screen.rows) : screen.rows[i] = screen.sorted[i]

\* six rows were built while the limit was 5: the first five are shown
C15_Witness ==
    /\ screen # None
    /\ display_limit = LimitFloor
    /\ Len(screen.sorted) = 6
    /\ Len(screen.rows) = 5
    /\ screen.rows = SubSeq(screen.sorted, 1, 5)

----------------------------------------------------------------------------
\* render_simple has just written the screen from its clone
DrawStep == rpc = "draw" /\ rpc' = "sleep"

\* the clone holds a request of the path
Held(s, path) ==
    \E i \in 1..Len(s.recent_requests) : s.recent_requests[i].path = path

\* the oldest request of the path that the clone holds
OldestOf(s, path) ==
    s.recent_requests[CHOOSE i \in 1..Len(s.recent_requests) :
                         /\ s.recent_requests[i].path = path
                         /\ \A h \in 1..(i - 1) : s.recent_requests[h].path # path]

\* C18: the rows built are one row for each path of the path histogram of
\* which recent_requests holds a request, and no row for any other path (a
\* path whose requests have all been evicted has none, whatever its count);
\* the count of a row is the count of the histogram, over the whole history;
\* its address, status and user agent are those of the oldest held request
\* of the path
C18_RowsJoined ==
    [][DrawStep =>
         LET rows == screen'.joined
         IN  /\ \A p \in DOMAIN snap.paths :
                    Held(snap, p) <=> (\E j \in 1..Len(rows) : rows[j].path = p)
             /\ \A i, j \in 1..Len(rows) : rows[i].path = rows[j].path => i = j
             /\ \A j \in 1..Len(rows) :
                    /\ rows[j].path \in DOMAIN snap.paths
                    /\ Held(snap, rows[j].path)
                    /\ rows[j].count = snap.paths[rows[j].path]
                    /\ rows[j].ip = OldestOf(snap, rows[j].path).ip
                    /\ rows[j].status = OldestOf(snap, rows[j].path).status_code
                    /\ rows[j].user_agent
                         = OldestOf(snap, rows[j].path).user_agent]_vars

\* 102 requests were recorded and shown: the path of the first has a count
\* and no row; the other path has one row, with the count 101 of its 100 held
\* requests and the one evicted, and the address and status of the third
\* request, the oldest that is held
C18_Witness ==
    /\ screen # None
    /\ screen.total = MaxRecent + 2
    /\ Len(screen.joined) = 1
    /\ screen.joined[1].path = <<"/p", 0>>
    /\ screen.joined[1].count = MaxRecent + 1
    /\ screen.joined[1].ip = FillRequest(3).ip
    /\ screen.joined[1].status = FillRequest(3).status_code
    /\ stats.paths[<<"/p", 1>>] = 1

----------------------------------------------------------------------------
\* the Stats as a whole number of calls of lines 139-145 leave it: every
\* counter and histogram counts the same requests, the buffer holds the
\* last of them, and the cached rate is that of the last
Whole(s, k) ==
    /\ s.total_requests = k
    /\ SumValues(s.status_codes) = k
    /\ SumValues(s.paths) = k
    /\ SumValues(s.ips) = k
    /\ SumValues(s.methods) = k
    /\ Len(s.recent_requests) = Min(k, MaxRecent)
    /\ s.requests_per_second.num = k

\* C16: the reader and the display loop never hold the guard of the Stats
\* at the same time, and the Stats change only under the reader's guard; a
\* record (counters, histograms, buffer, requests-per-second) is atomic for
\* a clone: every clone is the Stats as k completed records left it, and k
\* does not decrease from one clone to the next
C16_RecordsAtomic ==
    /\ [](/\ ~(ReaderHolds /\ rpc = "clone")
          /\ (mutex = "reader" <=> ReaderHolds)
          /\ (mutex = "main" <=> rpc = "clone")
          /\ (snap # None => Whole(snap, snap.total_requests)))
    /\ [][/\ (CloneStep => (/\ ~ReaderHolds
                             /\ snap' = stats
                             /\ Whole(stats, recorded)))
           /\ (stats' # stats => (ReaderHolds /\ mutex = "reader"))
           /\ stats'.total_requests >= stats.total_requests
           /\ recorded' >= recorded]_vars

\* the display loop holds the guard to clone the Stats of one record while
\* the reader waits for it with the next request in hand
C16_Witness ==
    /\ rpc = "clone"
    /\ mutex = "main"
    /\ ipc = "lock"
    /\ request # None
    /\ recorded = 1
    /\ stats.total_requests = 1

\* C17: the clone is a value of its own and the guard is released before it
\* is used: the display loop holds the guard only while it clones, never
\* while it builds, sorts and writes the rows or sleeps, so the reader's
\* lock is not held up by the display loop in those steps; what the reader
\* records after the clone does not change the clone
C17_CloneThenRelease ==
    /\ [](/\ (mutex = "main" <=> rpc = "clone")
          /\ ((Alive /\ ipc = "lock" /\ rpc \in {"draw", "sleep", "poll", "lock"})
                => ENABLED IngestLock))
    /\ [][/\ (CloneStep => (snap' = stats /\ mutex' = "free"))
           /\ ((snap # None /\ snap' # None) => snap' = snap)]_vars

\* a request was recorded after the clone was taken: the clone in use still
\* is the Stats of one request
C17_Witness ==
    /\ rpc = "draw"
    /\ snap # None
    /\ snap.total_requests = 1
    /\ stats.total_requests = 2
    /\ recorded = 2
    /\ mutex = "free"

----------------------------------------------------------------------------
\* C19: the sort key and the limit change only in a tick of the display loop
\* that takes a Sort, IncreaseLimit or DecreaseLimit off the channel: a
\* record of the reader, a clone, a tick that finds the channel empty and a
\* tick that takes Noop or Quit leave them as they were; and no tick,
\* whatever its command, changes a field of the Stats
C19_ViewFrame ==
    [][/\ (viewVars' # viewVars =>
              /\ TickStep
              /\ chan # << >>
              /\ Head(chan).cmd \in {"Sort", "IncreaseLimit", "DecreaseLimit"})
       /\ ((TickStep /\ chan = << >>) => viewVars' = viewVars)
       /\ ((TickStep /\ chan # << >> /\ Head(chan).cmd \in {"Noop", "Quit"})
              => viewVars' = viewVars)
       /\ ((stats' # stats \/ CloneStep) => viewVars' = viewVars)
       /\ (TickStep => stats' = stats)]_vars

\* with a request recorded, a tick has taken a Sort and the next a Noop: the
\* view is the one the Sort left
C19_Witness ==
    /\ applied = <<Sort("StatusCode"), Noop>>
    /\ sort_by = "StatusCode"
    /\ display_limit = DefaultLimit
    /\ stats.total_requests = 1
    /\ rpc = "lock"

----------------------------------------------------------------------------
\* the place of Quit in the channel, 0 when none is pending: a Quit sent
\* behind k pending commands is at place k + 1
QuitPlace ==
    IF \E i \in 1..Len(chan) : chan[i] = Quit
    THEN CHOOSE i \in 1..Len(chan) : chan[i] = Quit
    ELSE 0

\* C20 as stated: every Quit that is sent stops the display loop in the end:
\* the loop reaches its stopped state
C20_Original ==
    /\ QuitSent ~> (rpc = "stopped")
    /\ []((QuitSent /\ LoopLeft) => rpc = "stopped")

\* C20, amended: where the display loop is scheduled fairly, every Quit that
\* is sent ends the loop, whatever the log reader does.  A Quit sent behind k
\* pending commands is at place k + 1 of the channel, every tick moves it one
\* place ahead, the tick that finds it at the head clears `running` and is
\* the last tick; the loop stops at the end of that tick, unless a render
\* fails in that tick or before it, which ends the loop with the error
C20_QuitEndsLoop ==
    /\ QuitSent ~> LoopLeft
    /\ (~running) ~> LoopLeft
    /\ []((~running /\ Alive) => rpc \in {"lock", "clone", "draw", "sleep"})
    /\ [](rpc = "stopped" => ~running)
    /\ [][/\ ((TickStep /\ QuitPlace > 1)
                 => (QuitPlace' = QuitPlace - 1 /\ running'))
           /\ ((TickStep /\ QuitPlace = 1) => (QuitPlace' = 0 /\ ~running'))
           /\ ((~TickStep /\ QuitPlace' # QuitPlace)
                 => (QuitPlace = 0 /\ QuitPlace' = Len(chan) + 1
                       /\ sent' = Append(sent, Quit)))
           /\ ((rpc' = "stopped" /\ rpc # "stopped") => rpc = "sleep")]_vars

\* a Quit sent behind one command has stopped the loop in the second tick,
\* while the log reader recorded two requests
C20_Witness ==
    /\ rpc = "stopped"
    /\ sent = <<Noop, Quit>>
    /\ applied = sent
    /\ recorded = 2
    /\ ipc = "done"

====
